---- MODULE Spec2Model ----
(***************************************************************************)
(* Token lifecycle of the Altus 4 SDK: the TokenStorageManager             *)
(* (src/src/utils/token-storage.ts) shared by every client in a runtime,   *)
(* and the BaseClient request / refresh / retry protocol                   *)
(* (src/src/client/base-client.ts).                                        *)
(*                                                                         *)
(* JavaScript optional values (null / undefined) are encoded as sequences  *)
(* of length at most one: None is <<>>, Some(x) is <<x>>.                  *)
(***************************************************************************)
EXTENDS Integers, Sequences, FiniteSets, TLC

None == <<>>
Some(x) == <<x>>

\* JavaScript truthiness of an optional string and of an optional number.
TruthyStr(o) == o # None /\ o[1] # ""
TruthyNum(o) == o # None /\ o[1] # 0

(***************************************************************************)
(* Bounds of the model.                                                    *)
(***************************************************************************)
MaxCalls == 2
MaxTicks == 1
StartTime == 5000
TickMs == 1000

Instances == {"A", "B"}
\* Tokens handed to setToken by callers, and tokens the refresh endpoint issues.
UserTokens == {"t1"}
RefreshTokens == {"t2"}
CallIds == 1..MaxCalls
\* expiresIn arguments of setToken: omitted, or a TTL in seconds.
TTLs == {None, Some(1)}

(***************************************************************************)
(* Program constants.                                                      *)
(***************************************************************************)
MsPerSecond == 1000
Unauthorized == 401
RefreshUrl == "/auth/refresh"
ApiUrl == "/api"
Urls == {ApiUrl, RefreshUrl}

(***************************************************************************)
(* Runtime environment: whether `window` exists, and what localStorage     *)
(* does ("ok", "absent", or "throws" on every call).                       *)
(***************************************************************************)
Envs ==
    { [window |-> TRUE,  ls |-> "ok"],
      [window |-> TRUE,  ls |-> "throws"],
      [window |-> FALSE, ls |-> "absent"] }

\* The environments the client protocol is explored in.
ClientEnvs == {e \in Envs : e.ls # "throws"}

HasMemory(e) == e.window
HasLocalStorage(e) == e.window /\ e.ls # "absent"

\* The two keys of the durable store.
STORAGE_KEY == "altus4_auth_data"
LEGACY_KEY == "altus4_token"

\* Finer conditions of the durable store: one kind of call throws, or every
\* call on the legacy key throws, while the others work.
FaultyEnvs ==
    { [window |-> TRUE, ls |-> "throwsOnGet"],
      [window |-> TRUE, ls |-> "throwsOnSet"],
      [window |-> TRUE, ls |-> "throwsOnRemove"],
      [window |-> TRUE, ls |-> "throwsOnLegacy"] }

\* localStorage.getItem / setItem / removeItem on key `key` throws.
GetThrows(e, key) == e.ls \in {"throws", "throwsOnGet"}
SetThrows(e, key) ==
    e.ls \in {"throws", "throwsOnSet"} \/ (e.ls = "throwsOnLegacy" /\ key = LEGACY_KEY)
RemoveThrows(e, key) ==
    e.ls \in {"throws", "throwsOnRemove"} \/ (e.ls = "throwsOnLegacy" /\ key = LEGACY_KEY)

(***************************************************************************)
(* TokenStorageManager.  A store is the in-memory slot, the durable        *)
(* record under 'altus4_auth_data' and the legacy key 'altus4_token'.      *)
(***************************************************************************)
EmptyStore == [mem |-> None, dur |-> None, legacy |-> None]

\* JSON.stringify / JSON.parse of a StoredTokenData record.
Stringify(data) == [json |-> TRUE, data |-> data]
ParseThrows(payload) == ~payload.json
Parse(payload) == payload.data

isValidTokenData(data) == data.token # ""

\* Faulty variant: a save without a user id keeps the user id of the record
\* in the in-memory slot.
saveTokenKeepUserId(st, e, now, token, expiresIn, userId) ==
    LET tokenData == [token     |-> token,
                      expiresAt |-> IF TruthyNum(expiresIn)
                                    THEN Some(now + expiresIn[1] * MsPerSecond)
                                    ELSE None,
                      issuedAt  |-> now,
                      userId    |-> IF userId = None /\ st.mem # None
                                    THEN st.mem[1].userId
                                    ELSE userId]
        st1 == IF HasMemory(e) THEN [st EXCEPT !.mem = Some(tokenData)] ELSE st
    IN  IF HasLocalStorage(e) /\ ~SetThrows(e, STORAGE_KEY)
        THEN IF SetThrows(e, LEGACY_KEY)
             THEN [st1 EXCEPT !.dur = Some(Stringify(tokenData))]
             ELSE [st1 EXCEPT !.dur = Some(Stringify(tokenData)), !.legacy = Some(token)]
        ELSE st1

\* Faulty variant: the TTL is tested for presence, not for truthiness.
saveTokenAnyTTL(st, e, now, token, expiresIn, userId) ==
    LET tokenData == [token     |-> token,
                      expiresAt |-> IF expiresIn # None
                                    THEN Some(now + expiresIn[1] * MsPerSecond)
                                    ELSE None,
                      issuedAt  |-> now,
                      userId    |-> userId]
        st1 == IF HasMemory(e) THEN [st EXCEPT !.mem = Some(tokenData)] ELSE st
    IN  IF HasLocalStorage(e) /\ ~SetThrows(e, STORAGE_KEY)
        THEN IF SetThrows(e, LEGACY_KEY)
             THEN [st1 EXCEPT !.dur = Some(Stringify(tokenData))]
             ELSE [st1 EXCEPT !.dur = Some(Stringify(tokenData)), !.legacy = Some(token)]
        ELSE st1

\* Faulty variant: the in-memory slot is written after the durable store, inside
\* the same try block.
saveTokenMemoryLast(st, e, now, token, expiresIn, userId) ==
    LET tokenData == [token     |-> token,
                      expiresAt |-> IF TruthyNum(expiresIn)
                                    THEN Some(now + expiresIn[1] * MsPerSecond)
                                    ELSE None,
                      issuedAt  |-> now,
                      userId    |-> userId]
    IN  IF HasLocalStorage(e)
        THEN IF SetThrows(e, STORAGE_KEY)
             THEN st
             ELSE IF SetThrows(e, LEGACY_KEY)
                  THEN [st EXCEPT !.dur = Some(Stringify(tokenData))]
                  ELSE [st EXCEPT !.dur = Some(Stringify(tokenData)),
                                  !.legacy = Some(token), !.mem = Some(tokenData)]
        ELSE IF HasMemory(e) THEN [st EXCEPT !.mem = Some(tokenData)] ELSE st

\* Faulty variant: a save without a TTL gets a default lifetime of one second.
saveTokenDefaultTTL(st, e, now, token, expiresIn, userId) ==
    LET tokenData == [token     |-> token,
                      expiresAt |-> IF TruthyNum(expiresIn)
                                    THEN Some(now + expiresIn[1] * MsPerSecond)
                                    ELSE Some(now + MsPerSecond),
                      issuedAt  |-> now,
                      userId    |-> userId]
        st1 == IF HasMemory(e) THEN [st EXCEPT !.mem = Some(tokenData)] ELSE st
    IN  IF HasLocalStorage(e) /\ ~SetThrows(e, STORAGE_KEY)
        THEN IF SetThrows(e, LEGACY_KEY)
             THEN [st1 EXCEPT !.dur = Some(Stringify(tokenData))]
             ELSE [st1 EXCEPT !.dur = Some(Stringify(tokenData)), !.legacy = Some(token)]
        ELSE st1

saveToken(st, e, now, token, expiresIn, userId) ==
    LET tokenData == [token     |-> token,
                      expiresAt |-> IF TruthyNum(expiresIn)
                                    THEN Some(now + expiresIn[1] * MsPerSecond)
                                    ELSE None,
                      issuedAt  |-> now,
                      userId    |-> userId]
        st1 == IF HasMemory(e) THEN [st EXCEPT !.mem = Some(tokenData)] ELSE st
    IN  IF HasLocalStorage(e) /\ ~SetThrows(e, STORAGE_KEY)
        THEN IF SetThrows(e, LEGACY_KEY)
             THEN [st1 EXCEPT !.dur = Some(Stringify(tokenData))]
             ELSE [st1 EXCEPT !.dur = Some(Stringify(tokenData)), !.legacy = Some(token)]
        ELSE st1

\* Faulty variant: the in-memory slot is never consulted.
getTokenDataNoMemory(st, e) ==
    IF HasLocalStorage(e) /\ ~GetThrows(e, STORAGE_KEY) /\ st.dur # None
       /\ ~ParseThrows(st.dur[1]) /\ isValidTokenData(Parse(st.dur[1]))
    THEN [data |-> Some(Parse(st.dur[1])), st |-> st]
    ELSE [data |-> None, st |-> st]

\* Faulty variant: a record read from the durable store is not copied into the
\* in-memory slot.
getTokenDataNoRefill(st, e) ==
    IF HasMemory(e) /\ st.mem # None /\ isValidTokenData(st.mem[1])
    THEN [data |-> st.mem, st |-> st]
    ELSE IF HasLocalStorage(e) /\ ~GetThrows(e, STORAGE_KEY) /\ st.dur # None
            /\ ~ParseThrows(st.dur[1]) /\ isValidTokenData(Parse(st.dur[1]))
         THEN [data |-> Some(Parse(st.dur[1])), st |-> st]
         ELSE [data |-> None, st |-> st]

\* Result: the record read (or None) and the store after the cache refill.
getTokenData(st, e) ==
    IF HasMemory(e) /\ st.mem # None /\ isValidTokenData(st.mem[1])
    THEN [data |-> st.mem, st |-> st]
    ELSE IF HasLocalStorage(e) /\ ~GetThrows(e, STORAGE_KEY) /\ st.dur # None
            /\ ~ParseThrows(st.dur[1]) /\ isValidTokenData(Parse(st.dur[1]))
         THEN [data |-> Some(Parse(st.dur[1])),
               st   |-> [st EXCEPT !.mem = Some(Parse(st.dur[1]))]]
         ELSE [data |-> None, st |-> st]

clearTokenStore(st, e) ==
    LET st1 == IF HasMemory(e) THEN [st EXCEPT !.mem = None] ELSE st
    IN  IF HasLocalStorage(e) /\ ~RemoveThrows(e, STORAGE_KEY)
        THEN IF RemoveThrows(e, LEGACY_KEY)
             THEN [st1 EXCEPT !.dur = None]
             ELSE [st1 EXCEPT !.dur = None, !.legacy = None]
        ELSE st1

\* Result: the token (or None) and the store after refill / lazy expiry.
getTokenStore(st, e, now) ==
    LET CheckExpiry(r) ==
            IF r.data = None
            THEN [tok |-> None, st |-> r.st]
            ELSE IF TruthyNum(r.data[1].expiresAt) /\ now >= r.data[1].expiresAt[1]
                 THEN [tok |-> None, st |-> clearTokenStore(r.st, e)]
                 ELSE [tok |-> Some(r.data[1].token), st |-> r.st]
    IN  CheckExpiry(getTokenData(st, e))

(***************************************************************************)
(* BaseClient token helpers.  Each returns the value handed back, the      *)
(* instance's token field afterwards and the store afterwards.             *)
(***************************************************************************)
\* Faulty variant: the instance answers from its own field and never asks the store.
getTokenCached(tk, st, e, now) == [ret |-> tk, token |-> tk, st |-> st]

getToken(tk, st, e, now) ==
    LET Sync(r) ==
            IF TruthyStr(r.tok)
            THEN [ret |-> r.tok, token |-> r.tok, st |-> r.st]
            ELSE [ret |-> tk,    token |-> tk,    st |-> r.st]
    IN  Sync(getTokenStore(st, e, now))

\* Faulty variant: a token is only saved when the store holds none.
setTokenIfAbsent(st, e, now, tok, expiresIn) ==
    [token |-> Some(tok),
     st    |-> IF getTokenData(st, e).data = None
               THEN saveToken(st, e, now, tok, expiresIn, None)
               ELSE st]

setToken(st, e, now, tok, expiresIn) ==
    [token |-> Some(tok), st |-> saveToken(st, e, now, tok, expiresIn, None)]

\* Faulty variant: only the instance's field is cleared, the store is left alone.
clearTokenFieldOnly(st, e) == [token |-> None, st |-> st]

clearToken(st, e) ==
    [token |-> None, st |-> clearTokenStore(st, e)]

\* Request interceptor: the Authorization header the call leaves with, given
\* the header already on its config (None when there is none).
RequestInterceptor(auth, tk, st, e, now) ==
    LET Attach(g) ==
            [auth  |-> IF TruthyStr(g.ret) THEN g.ret ELSE auth,
             token |-> g.token,
             st    |-> g.st]
    IN  Attach(getToken(tk, st, e, now))

(***************************************************************************)
(* Errors and the envelopes request() hands back.  An error is identified  *)
(* by the call and the attempt that raised it (call 0: the refresh POST).  *)
(***************************************************************************)
NoErr == [call |-> 0, attempt |-> 0, status |-> 0, body |-> FALSE]
MkErr(c, attempt, status, body) ==
    [call |-> c, attempt |-> attempt, status |-> status, body |-> body]

Pending == [how |-> "pending", kind |-> "none", err |-> NoErr]
Data == [how |-> "returned", kind |-> "data", err |-> NoErr]

\* The catch block of request().
RequestCatch(error) ==
    IF error.body
    THEN [how |-> "returned", kind |-> "errorBody", err |-> error]
    ELSE [how |-> "returned", kind |-> "networkError", err |-> error]

NewCall ==
    [inst |-> "A", url |-> ApiUrl, pc |-> "new", retry |-> FALSE, sent |-> 0,
     auth |-> None, err |-> NoErr, result |-> Pending]

\* A call whose request() has returned: its config and saved error are gone,
\* what is left is the value handed to the caller (and, for the record,
\* whether the call had been marked _retry).
Finish(call, result) ==
    [NewCall EXCEPT !.pc = "done", !.retry = call.retry, !.result = result]

\* The TokenStorageManager call made within the last second: its arguments,
\* what it returned and whether it threw (variable `last`).  Variable `wire`
\* lists the calls dispatched by the latest step that dispatched any, in the
\* order in which they went on the wire.
NoOp == [op |-> "none", arg |-> <<>>, ret |-> <<>>, threw |-> FALSE]

VARIABLES env, now, store, token, refreshInProgress, refreshQueue, calls, last, wire

vars == <<env, now, store, token, refreshInProgress, refreshQueue, calls, last, wire>>

Init ==
    /\ env \in ClientEnvs
    /\ now = StartTime
    /\ store = EmptyStore
    /\ token = [i \in Instances |-> None]
    /\ refreshInProgress = [i \in Instances |-> FALSE]
    /\ refreshQueue = [i \in Instances |-> <<>>]
    /\ calls = [c \in CallIds |-> NewCall]
    /\ last = NoOp
    /\ wire = <<>>

\* The refresh POSTs of instance i that are on the wire: one per call that
\* is awaiting `this.client.post('/auth/refresh', ...)`.
RefreshInFlightIn(cs, i) == {c \in CallIds : cs[c].inst = i /\ cs[c].pc = "trigger"}
RefreshInFlight(i) == RefreshInFlightIn(calls, i)

Responses ==
    { [status |-> 200, body |-> TRUE],
      [status |-> Unauthorized, body |-> TRUE],
      [status |-> 500, body |-> TRUE],
      [status |-> 0, body |-> FALSE] }       \* transport exception: no response

RefreshResponses ==
    { [status |-> 200, token |-> Some(t)] : t \in RefreshTokens }
    \cup { [status |-> s, token |-> None] : s \in {200, Unauthorized, 500, 0} }

UrlIncludesRefresh(url) == url = RefreshUrl

\* Faulty variant: the url test is missing.
ShouldRefreshAnyUrl(status, call) ==
    status = Unauthorized /\ ~call.retry

\* Faulty variant: the _retry test is missing.
ShouldRefreshAgain(status, call) ==
    status = Unauthorized /\ ~UrlIncludesRefresh(call.url)

\* Faulty variant: the status test is missing.
ShouldRefreshAnyStatus(status, call) ==
    ~call.retry /\ ~UrlIncludesRefresh(call.url)

\* Response interceptor, first branch: hand the error to attemptRefreshAndRetry.
ShouldRefresh(status, call) ==
    status = Unauthorized /\ ~call.retry /\ ~UrlIncludesRefresh(call.url)

\* Faulty variant: the refreshInProgress test is missing.
ShouldEnqueueNever(inProgress) == FALSE

\* attemptRefreshAndRetry, first test: queue behind the refresh in progress.
ShouldEnqueue(inProgress) == inProgress

\* Faulty variant: every waiter is rejected with the one error of the refresh call.
WaiterRejectionShared(call, refreshError) == refreshError

\* What a queued waiter rejects with when the refresh failed.
WaiterRejection(call, refreshError) == call.err

\* What the triggering call rejects with when the refresh failed.
TriggerRejection(call, refreshError) == call.err

(***************************************************************************)
(* request(url) on instance i: the request interceptor attaches the token  *)
(* and the call goes on the wire.                                          *)
(***************************************************************************)
StartRequest(c, i, url) ==
    /\ calls[c].pc = "new"
    /\ \A k \in 1..(c - 1) : calls[k].pc # "new"
    /\ \E d \in {RequestInterceptor(None, token[i], store, env, now)} :
           /\ calls' = [calls EXCEPT ![c] =
                 [NewCall EXCEPT !.inst = i, !.url = url, !.pc = "inflight",
                                 !.sent = 1, !.auth = d.auth]]
           /\ token' = [token EXCEPT ![i] = d.token]
           /\ store' = d.st
    /\ wire' = <<c>>
    /\ UNCHANGED <<env, now, refreshInProgress, refreshQueue, last>>

(***************************************************************************)
(* The transport answers call c; the response interceptor and the rest of  *)
(* request() run.                                                          *)
(***************************************************************************)
Respond(c, resp) ==
    /\ calls[c].pc = "inflight"
    /\ LET call == calls[c]
           i == call.inst
           error == MkErr(c, call.sent, resp.status, resp.body)
       IN  IF resp.status = 200
           THEN /\ calls' = [calls EXCEPT ![c] = Finish(call, Data)]
                /\ UNCHANGED <<store, token, refreshInProgress, refreshQueue>>
           ELSE IF ShouldRefresh(resp.status, call)
           THEN IF ShouldEnqueue(refreshInProgress[i])
                THEN /\ refreshQueue' = [refreshQueue EXCEPT ![i] = Append(@, c)]
                     /\ calls' = [calls EXCEPT ![c].retry = TRUE, ![c].pc = "waiting",
                                               ![c].err = error]
                     /\ UNCHANGED <<store, token, refreshInProgress>>
                ELSE \E d \in {RequestInterceptor(None, token[i], store, env, now)} :
                         /\ refreshInProgress' = [refreshInProgress EXCEPT ![i] = TRUE]
                         /\ calls' = [calls EXCEPT ![c].retry = TRUE, ![c].pc = "trigger",
                                                   ![c].err = error]
                         /\ token' = [token EXCEPT ![i] = d.token]
                         /\ store' = d.st
                         /\ UNCHANGED refreshQueue
           ELSE IF resp.status = Unauthorized
           THEN \E k \in {clearToken(store, env)} :
                    /\ token' = [token EXCEPT ![i] = k.token]
                    /\ store' = k.st
                    /\ calls' = [calls EXCEPT ![c] = Finish(call, RequestCatch(error))]
                    /\ UNCHANGED <<refreshInProgress, refreshQueue>>
           ELSE /\ calls' = [calls EXCEPT ![c] = Finish(call, RequestCatch(error))]
                /\ UNCHANGED <<store, token, refreshInProgress, refreshQueue>>
    /\ UNCHANGED <<wire, env, now, last>>

\* The config of the POST issued by attemptRefreshAndRetry, as the response
\* interceptor sees it.  (The header the POST leaves with is not recorded:
\* nothing in the client reads it back.)
RefreshPost == [NewCall EXCEPT !.url = RefreshUrl]

\* Faulty variant: the waiters are released last in, first out.
ReleaseOrderReversed(q) == [k \in 1..Len(q) |-> q[Len(q) + 1 - k]]

\* The order in which refreshQueue.forEach visits the waiters.
ReleaseOrder(q) == q

\* refreshQueue.forEach(cb => cb(true)): each waiter reads the token, sets its
\* header and re-dispatches its request through the request interceptor.
RECURSIVE DrainSuccess(_, _, _, _, _, _)
DrainSuccess(q, cs, tk, st, e, t) ==
    IF q = <<>>
    THEN [calls |-> cs, token |-> tk, st |-> st]
    ELSE LET w == Head(q)
             Redispatch(d) ==
                 DrainSuccess(Tail(q),
                              [cs EXCEPT ![w].pc = "inflight", ![w].sent = @ + 1,
                                         ![w].auth = d.auth],
                              d.token, d.st, e, t)
             SetHeader(g) ==
                 Redispatch(RequestInterceptor(
                     IF TruthyStr(g.ret) THEN g.ret ELSE cs[w].auth,
                     g.token, g.st, e, t))
         IN  SetHeader(getToken(tk, st, e, t))

\* refreshQueue.forEach(cb => cb(false)): each waiter rejects; request()
\* catches the rejection.
RECURSIVE DrainFailure(_, _, _)
DrainFailure(q, cs, refreshError) ==
    IF q = <<>>
    THEN cs
    ELSE LET w == Head(q)
         IN  DrainFailure(Tail(q),
                          [cs EXCEPT ![w] =
                              Finish(cs[w], RequestCatch(WaiterRejection(cs[w], refreshError)))],
                          refreshError)

\* Faulty variant: the refreshed token is saved with a lifetime of one second.
RefreshTTLOneSecond == Some(1)

\* this.setToken(resp.data.token): the expiresIn argument is left out.
RefreshTTL == None

\* `Bearer ${this.getToken()}` of the triggering call's retry.
BearerOf(ret) == IF ret = None THEN Some("null") ELSE ret

(***************************************************************************)
(* The refresh POST awaited by triggering call c settles: the rest of      *)
(* attemptRefreshAndRetry runs.                                            *)
(***************************************************************************)
RefreshRespond(c, resp) ==
    /\ calls[c].pc = "trigger"
    /\ LET i == calls[c].inst
           refreshError == MkErr(0, 1, resp.status, FALSE)
       IN  IF resp.status = 200 /\ TruthyStr(resp.token)
           THEN \E s \in {setToken(store, env, now, resp.token[1], RefreshTTL)} :
                \E dr \in {DrainSuccess(ReleaseOrder(refreshQueue[i]), calls,
                                         s.token, s.st, env, now)} :
                \E g \in {getToken(dr.token, dr.st, env, now)} :
                \E d \in {RequestInterceptor(BearerOf(g.ret), g.token, g.st, env, now)} :
                    /\ calls' = [dr.calls EXCEPT ![c].pc = "inflight",
                                                 ![c].sent = @ + 1,
                                                 ![c].auth = d.auth]
                    /\ token' = [token EXCEPT ![i] = d.token]
                    /\ store' = d.st
                    /\ refreshQueue' = [refreshQueue EXCEPT ![i] = <<>>]
                    /\ wire' = Append(ReleaseOrder(refreshQueue[i]), c)
                    /\ UNCHANGED refreshInProgress
           ELSE IF resp.status # 200 /\ ShouldRefresh(resp.status, RefreshPost)
           THEN \* the POST's own error would be handed to attemptRefreshAndRetry
                \* and wait behind the refresh it is: the await never resolves
                /\ calls' = [calls EXCEPT ![c].pc = "stalled"]
                /\ UNCHANGED <<store, token, refreshInProgress, refreshQueue, wire>>
           ELSE \* response interceptor of the POST, then the failure path
                \E k \in {clearToken(store, env)} :
                    /\ calls' = [DrainFailure(refreshQueue[i], calls, refreshError)
                                    EXCEPT ![c] =
                                        Finish(calls[c], RequestCatch(TriggerRejection(calls[c], refreshError)))]
                    /\ token' = [token EXCEPT ![i] = k.token]
                    /\ store' = k.st
                    /\ refreshQueue' = [refreshQueue EXCEPT ![i] = <<>>]
                    /\ UNCHANGED <<refreshInProgress, wire>>
    /\ UNCHANGED <<env, now, last>>

(***************************************************************************)
(* Callers of the administrative hooks, and the clock.                     *)
(***************************************************************************)
SetToken(i, tok, expiresIn) ==
    /\ \E s \in {setToken(store, env, now, tok, expiresIn)} :
           /\ token' = [token EXCEPT ![i] = s.token]
           /\ store' = s.st
    /\ UNCHANGED <<wire, env, now, refreshInProgress, refreshQueue, calls, last>>

ClearToken(i) ==
    /\ \E k \in {clearToken(store, env)} :
           /\ token' = [token EXCEPT ![i] = k.token]
           /\ store' = k.st
    /\ UNCHANGED <<wire, env, now, refreshInProgress, refreshQueue, calls, last>>

Tick ==
    /\ now < StartTime + MaxTicks * TickMs
    /\ now' = now + TickMs
    /\ last' = NoOp
    /\ UNCHANGED <<wire, env, store, token, refreshInProgress, refreshQueue, calls>>

Next ==
    \/ \E c \in CallIds, i \in Instances, url \in Urls : StartRequest(c, i, url)
    \/ \E c \in CallIds, resp \in Responses : Respond(c, resp)
    \/ \E c \in CallIds, resp \in RefreshResponses : RefreshRespond(c, resp)
    \/ \E i \in Instances, tok \in UserTokens, ttl \in TTLs : SetToken(i, tok, ttl)
    \/ \E i \in Instances : ClearToken(i)
    \/ Tick

Spec == Init /\ [][Next]_vars

(***************************************************************************)
(* TokenStorageManager, the remaining operations.                          *)
(***************************************************************************)
FiveMinutes == 5 * 60 * 1000

Max(a, b) == IF a >= b THEN a ELSE b

hasValidToken(st, e, t) ==
    LET NotNull(r) == [ret |-> r.tok # None, st |-> r.st]
    IN  NotNull(getTokenStore(st, e, t))

isTokenExpiringSoon(st, e, t) ==
    LET Soon(r) ==
            [ret |-> IF r.data = None \/ ~TruthyNum(r.data[1].expiresAt)
                     THEN FALSE
                     ELSE r.data[1].expiresAt[1] - t < FiveMinutes,
             st  |-> r.st]
    IN  Soon(getTokenData(st, e))

\* Faulty variant: the remaining time is handed back in milliseconds.
getTimeToExpiryMs(st, e, t) ==
    LET Left(r) ==
            [ret |-> IF r.data = None \/ ~TruthyNum(r.data[1].expiresAt)
                     THEN 0
                     ELSE Max(0, r.data[1].expiresAt[1] - t),
             st  |-> r.st]
    IN  Left(getTokenData(st, e))

getTimeToExpiry(st, e, t) ==
    LET Left(r) ==
            [ret |-> IF r.data = None \/ ~TruthyNum(r.data[1].expiresAt)
                     THEN 0
                     ELSE Max(0, (r.data[1].expiresAt[1] - t) \div MsPerSecond),
             st  |-> r.st]
    IN  Left(getTokenData(st, e))

\* A Partial<StoredTokenData>: each field is left out (<<>>) or given (<<v>>).
NoUpdates == [token |-> <<>>, expiresAt |-> <<>>, userId |-> <<>>]

\* { ...current, ...updates }
Merge(current, updates) ==
    [token     |-> IF updates.token = <<>> THEN current.token ELSE updates.token[1],
     expiresAt |-> IF updates.expiresAt = <<>> THEN current.expiresAt
                                              ELSE updates.expiresAt[1],
     issuedAt  |-> current.issuedAt,
     userId    |-> IF updates.userId = <<>> THEN current.userId ELSE updates.userId[1]]

\* Faulty variant: the remaining time is rounded up to whole seconds.
updateTokenDataCeil(st, e, t, updates) ==
    LET Resave(r) ==
            IF r.data = None
            THEN r.st
            ELSE LET Write(updated) ==
                         saveToken(r.st, e, t, updated.token,
                                   IF TruthyNum(updated.expiresAt)
                                   THEN Some(0 - ((t - updated.expiresAt[1]) \div MsPerSecond))
                                   ELSE None,
                                   updated.userId)
                 IN  Write(Merge(r.data[1], updates))
    IN  Resave(getTokenData(st, e))

updateTokenData(st, e, t, updates) ==
    LET Resave(r) ==
            IF r.data = None
            THEN r.st
            ELSE LET Write(updated) ==
                         saveToken(r.st, e, t, updated.token,
                                   IF TruthyNum(updated.expiresAt)
                                   THEN Some((updated.expiresAt[1] - t) \div MsPerSecond)
                                   ELSE None,
                                   updated.userId)
                 IN  Write(Merge(r.data[1], updates))
    IN  Resave(getTokenData(st, e))

(***************************************************************************)
(* Exceptions.  Every durable-store call sits in a try block whose catch   *)
(* only logs; the in-memory slot is a plain property of `window`.          *)
(***************************************************************************)
\* Faulty variant: the catch block is missing.
Rethrown(exception) == exception

\* try { ... } catch (e) { console.warn(...) }: does the exception escape?
Caught(exception) == FALSE

saveTokenThrows(st, e) ==
    Caught(HasLocalStorage(e)
           /\ (SetThrows(e, STORAGE_KEY) \/ SetThrows(e, LEGACY_KEY)))

getTokenDataThrows(st, e) ==
    /\ ~(HasMemory(e) /\ st.mem # None /\ isValidTokenData(st.mem[1]))
    /\ Caught(HasLocalStorage(e)
              /\ (GetThrows(e, STORAGE_KEY)
                  \/ (st.dur # None /\ ParseThrows(st.dur[1]))))

clearTokenThrows(st, e) ==
    Caught(HasLocalStorage(e)
           /\ (RemoveThrows(e, STORAGE_KEY) \/ RemoveThrows(e, LEGACY_KEY)))

getTokenThrows(st, e, t) ==
    \/ getTokenDataThrows(st, e)
    \/ (LET Expired(r) == /\ r.data # None
                          /\ TruthyNum(r.data[1].expiresAt)
                          /\ t >= r.data[1].expiresAt[1]
        IN  Expired(getTokenData(st, e))) /\ clearTokenThrows(st, e)

updateTokenDataThrows(st, e) ==
    \/ getTokenDataThrows(st, e)
    \/ (LET Exists(r) == r.data # None IN Exists(getTokenData(st, e)))
       /\ saveTokenThrows(st, e)

(***************************************************************************)
(* The TokenStorageManager on its own: callers in one runtime invoke its   *)
(* operations in any order, under every condition of the durable store,    *)
(* while time passes, the page reloads and other writers touch the durable *)
(* record.                                                                 *)
(***************************************************************************)
StoreEnvs == Envs \cup FaultyEnvs \cup {[window |-> TRUE, ls |-> "absent"]}

StoreTokens == UserTokens \cup RefreshTokens
\* expiresIn arguments of saveToken: also a negative TTL.
StoreTTLs == TTLs \cup {Some(-1)}
UserIds == {"u"}

Partials ==
    { [NoUpdates EXCEPT !.userId = <<Some(u)>>] : u \in UserIds }
    \cup { [NoUpdates EXCEPT !.expiresAt = <<Some(StartTime + FiveMinutes)>>] }

\* What another writer may leave under 'altus4_auth_data': text that is not
\* JSON, JSON that is no StoredTokenData, and a record expiring at time 0.
ForeignPayloads ==
    { [json |-> FALSE,
       data |-> [token |-> "", expiresAt |-> None, issuedAt |-> 0, userId |-> None]],
      Stringify([token |-> "", expiresAt |-> None, issuedAt |-> 0, userId |-> None]),
      Stringify([token |-> "t1", expiresAt |-> Some(0), issuedAt |-> 0, userId |-> None]) }

Call(op, arg, ret, threw) ==
    [op |-> op, arg |-> arg, ret |-> ret, threw |-> threw]

StoreInit ==
    /\ env \in StoreEnvs
    /\ now = StartTime
    /\ store = EmptyStore
    /\ token = [i \in Instances |-> None]
    /\ refreshInProgress = [i \in Instances |-> FALSE]
    /\ refreshQueue = [i \in Instances |-> <<>>]
    /\ calls = [c \in CallIds |-> NewCall]
    /\ last = NoOp
    /\ wire = <<>>

CallSaveToken(tok, expiresIn, userId) ==
    /\ store' = saveToken(store, env, now, tok, expiresIn, userId)
    /\ last' = Call("saveToken", <<tok, expiresIn, userId>>, <<>>,
                    saveTokenThrows(store, env))
    /\ UNCHANGED <<wire, env, now, token, refreshInProgress, refreshQueue, calls>>

CallGetTokenData ==
    /\ \E r \in {getTokenData(store, env)} :
           /\ store' = r.st
           /\ last' = Call("getTokenData", <<>>, r.data, getTokenDataThrows(store, env))
    /\ UNCHANGED <<wire, env, now, token, refreshInProgress, refreshQueue, calls>>

CallGetToken ==
    /\ \E r \in {getTokenStore(store, env, now)} :
           /\ store' = r.st
           /\ last' = Call("getToken", <<>>, r.tok, getTokenThrows(store, env, now))
    /\ UNCHANGED <<wire, env, now, token, refreshInProgress, refreshQueue, calls>>

CallHasValidToken ==
    /\ \E r \in {hasValidToken(store, env, now)} :
           /\ store' = r.st
           /\ last' = Call("hasValidToken", <<>>, <<r.ret>>,
                           getTokenThrows(store, env, now))
    /\ UNCHANGED <<wire, env, now, token, refreshInProgress, refreshQueue, calls>>

CallIsTokenExpiringSoon ==
    /\ \E r \in {isTokenExpiringSoon(store, env, now)} :
           /\ store' = r.st
           /\ last' = Call("isTokenExpiringSoon", <<>>, <<r.ret>>,
                           getTokenDataThrows(store, env))
    /\ UNCHANGED <<wire, env, now, token, refreshInProgress, refreshQueue, calls>>

CallGetTimeToExpiry ==
    /\ \E r \in {getTimeToExpiry(store, env, now)} :
           /\ store' = r.st
           /\ last' = Call("getTimeToExpiry", <<>>, <<r.ret>>,
                           getTokenDataThrows(store, env))
    /\ UNCHANGED <<wire, env, now, token, refreshInProgress, refreshQueue, calls>>

CallClearToken ==
    /\ store' = clearTokenStore(store, env)
    /\ last' = Call("clearToken", <<>>, <<>>, clearTokenThrows(store, env))
    /\ UNCHANGED <<wire, env, now, token, refreshInProgress, refreshQueue, calls>>

CallUpdateTokenData(updates) ==
    /\ store' = updateTokenData(store, env, now, updates)
    /\ last' = Call("updateTokenData", <<updates>>, <<>>,
                    updateTokenDataThrows(store, env))
    /\ UNCHANGED <<wire, env, now, token, refreshInProgress, refreshQueue, calls>>

\* Instance i: setToken(tok, expiresIn).
ClientSetToken(i, tok, expiresIn) ==
    /\ \E s \in {setToken(store, env, now, tok, expiresIn)} :
           /\ token' = [token EXCEPT ![i] = s.token]
           /\ store' = s.st
    /\ last' = Call("saveToken", <<tok, expiresIn, None>>, <<>>,
                    saveTokenThrows(store, env))
    /\ UNCHANGED <<wire, env, now, refreshInProgress, refreshQueue, calls>>

\* Instance i: getToken().
ClientGetToken(i) ==
    /\ \E g \in {getToken(token[i], store, env, now)} :
           /\ token' = [token EXCEPT ![i] = g.token]
           /\ store' = g.st
           /\ last' = Call("client.getToken", <<i>>, g.ret,
                           getTokenThrows(store, env, now))
    /\ UNCHANGED <<wire, env, now, refreshInProgress, refreshQueue, calls>>

\* initializeTokenFromStorage of a client under construction.
initializeTokenFromStorage(st, e, t) ==
    LET Adopt(r) == [token |-> IF TruthyStr(r.tok) THEN r.tok ELSE None, st |-> r.st]
    IN  Adopt(getTokenStore(st, e, t))

\* A new BaseClient takes the place of instance i.
NewClient(i) ==
    /\ \E n \in {initializeTokenFromStorage(store, env, now)} :
           /\ token' = [token EXCEPT ![i] = n.token]
           /\ store' = n.st
           /\ last' = Call("new", <<i>>, n.token, getTokenThrows(store, env, now))
    /\ refreshInProgress' = [refreshInProgress EXCEPT ![i] = FALSE]
    /\ refreshQueue' = [refreshQueue EXCEPT ![i] = <<>>]
    /\ UNCHANGED <<wire, env, now, calls>>

\* The page reloads: the in-memory slot and every client are gone, the
\* durable store stays.
Reload ==
    /\ HasMemory(env)
    /\ store' = [store EXCEPT !.mem = None]
    /\ token' = [i \in Instances |-> None]
    /\ last' = Call("reload", <<>>, <<>>, FALSE)
    /\ UNCHANGED <<wire, env, now, refreshInProgress, refreshQueue, calls>>

\* Another writer replaces the durable record.
ForeignWrite(payload) ==
    /\ HasLocalStorage(env)
    /\ store' = [store EXCEPT !.dur = Some(payload)]
    /\ last' = Call("foreign", <<>>, <<>>, FALSE)
    /\ UNCHANGED <<wire, env, now, token, refreshInProgress, refreshQueue, calls>>

\* A millisecond passes (at most one between two ticks).
Millisecond ==
    /\ (now - StartTime) % TickMs = 0
    /\ now' = now + 1
    /\ UNCHANGED <<wire, env, store, token, refreshInProgress, refreshQueue, calls, last>>

StoreNext ==
    \/ \E tok \in StoreTokens, ttl \in StoreTTLs : CallSaveToken(tok, ttl, None)
    \/ CallGetTokenData
    \/ CallGetToken
    \/ CallHasValidToken
    \/ CallIsTokenExpiringSoon
    \/ CallGetTimeToExpiry
    \/ CallClearToken
    \/ \E updates \in Partials : CallUpdateTokenData(updates)
    \/ \E i \in Instances, tok \in StoreTokens, ttl \in StoreTTLs : ClientSetToken(i, tok, ttl)
    \/ \E i \in Instances : ClientGetToken(i)
    \/ \E i \in Instances : NewClient(i)
    \/ Reload
    \/ \E payload \in ForeignPayloads : ForeignWrite(payload)
    \/ Tick
    \/ Millisecond

StoreSpec == StoreInit /\ [][StoreNext]_vars

(***************************************************************************)
(* Vocabulary of the properties.                                           *)
(***************************************************************************)
\* The token the TokenStore would hand out now (None: no valid record).
StoreToken(st, e, t) == getTokenStore(st, e, t).tok

Suspended(call) == call.pc \in {"waiting", "trigger"}

\* Call c is put on the wire in this step.
Dispatched(c) == calls'[c].sent > calls[c].sent

\* request() of call c returns in this step.
Returns(c) == calls[c].pc # "done" /\ calls'[c].pc = "done"

\* request() handed back the body of (or, without a body, a NETWORK_ERROR
\* envelope around) the error `attempt` of call c raised with `status`.
ReturnedOwnError(call, c, attempt, status) ==
    /\ call.result.how = "returned"
    /\ call.result.kind = (IF call.result.err.body THEN "errorBody" ELSE "networkError")
    /\ call.result.err.call = c
    /\ call.result.err.attempt = attempt
    /\ call.result.err.status = status

RefreshStateUnchanged(i) ==
    /\ refreshInProgress'[i] = refreshInProgress[i]
    /\ refreshQueue'[i] = refreshQueue[i]
    /\ RefreshInFlightIn(calls', i) = RefreshInFlight(i)

TokenCleared(i) ==
    /\ token'[i] = None
    /\ getTokenData(store', env').data = None

(***************************************************************************)
(* C1: for every client instance, in every reachable state, at most one    *)
(* refresh call (the POST /auth/refresh issued by attemptRefreshAndRetry)  *)
(* is in flight.                                                           *)
(***************************************************************************)
C1_AtMostOneRefreshInFlight ==
    \A i \in Instances : Cardinality(RefreshInFlight(i)) <= 1

\* A second 401 arrived while the refresh was in flight and was queued.
C1_Witness ==
    \E i \in Instances :
        /\ Cardinality(RefreshInFlight(i)) = 1
        /\ Len(refreshQueue[i]) >= 1

(***************************************************************************)
(* C2: a 401 that reaches attemptRefreshAndRetry while no refresh call is  *)
(* in flight for the instance issues exactly one refresh call; and when a  *)
(* refresh succeeds, the new token is in the TokenStore and in the         *)
(* instance, and every call of the instance suspended on its 401 is        *)
(* dispatched again carrying that token.                                    *)
(***************************************************************************)
C2_OneRefreshAndAllRetried ==
    [][ /\ \A c \in CallIds :
              ( /\ calls[c].pc = "inflight"
                /\ Suspended(calls'[c])
                /\ RefreshInFlight(calls[c].inst) = {} )
              => RefreshInFlightIn(calls', calls[c].inst) = {c}
        /\ \A c \in CallIds :
              (calls[c].pc = "trigger" /\ calls'[c].pc = "inflight")
              => LET i == calls[c].inst
                     T == calls'[c].auth
                 IN  /\ TruthyStr(T)
                     /\ T[1] \in RefreshTokens
                     /\ token'[i] = T
                     /\ HasMemory(env) => StoreToken(store', env, now) = T
                     /\ \A w \in CallIds :
                           (calls[w].inst = i /\ Suspended(calls[w]))
                           => /\ calls'[w].pc = "inflight"
                              /\ calls'[w].sent = 2
                              /\ calls'[w].auth = T
      ]_vars

C4_FlagFalseWhenNoRefreshInFlight ==
    \A i \in Instances : RefreshInFlight(i) = {} => ~refreshInProgress[i]

(***************************************************************************)
(* C5: no call stays suspended behind a refresh in a state where no        *)
(* refresh call is in flight for its instance.                             *)
(***************************************************************************)
C5_NoCallSuspendedWithoutRefresh ==
    \A c \in CallIds :
        Suspended(calls[c]) => RefreshInFlight(calls[c].inst) # {}

C7_RetriedAtMostOnce ==
    [][ /\ \A c \in CallIds :
              /\ calls'[c].sent <= 2
              /\ Suspended(calls'[c]) => calls'[c].sent = 1
        /\ \A c \in CallIds :
              ( /\ calls[c].pc = "inflight"
                /\ calls[c].retry
                /\ Returns(c)
                /\ calls'[c].result.kind # "data"
                /\ calls'[c].result.err.status = Unauthorized )
              => /\ ReturnedOwnError(calls'[c], c, 2, Unauthorized)
                 /\ RefreshStateUnchanged(calls[c].inst)
      ]_vars

\* A retried call got a second 401 and it was handed to the caller.
C7_Witness ==
    \E c \in CallIds :
        /\ calls[c].pc = "done"
        /\ calls[c].retry
        /\ ReturnedOwnError(calls[c], c, 2, Unauthorized)

(***************************************************************************)
(* C8: a call that fails with anything other than a 401 is not dispatched  *)
(* again (exactly one dispatch when it had not been retried), leaves the   *)
(* TokenStore, the instance's token and the refresh state unchanged, and   *)
(* request() returns (never throws) the server's error body when there is  *)
(* one, otherwise a NETWORK_ERROR envelope.  Only a 401 suspends a call.   *)
(***************************************************************************)
C8_OtherFailuresReturnedUntouched ==
    [][ /\ \A c \in CallIds :
              Suspended(calls'[c]) => calls'[c].err.status = Unauthorized
        /\ \A c \in CallIds :
              calls[c].pc = "done" => calls'[c] = calls[c]
        /\ \A c \in CallIds :
              ( /\ Returns(c)
                /\ calls'[c].result.kind # "data"
                /\ calls'[c].result.err.status # Unauthorized )
              => /\ calls[c].pc = "inflight"
                 /\ ~calls[c].retry => calls[c].sent = 1
                 /\ ReturnedOwnError(calls'[c], c, calls[c].sent,
                                     calls'[c].result.err.status)
                 /\ store' = store
                 /\ token' = token
                 /\ refreshInProgress' = refreshInProgress
                 /\ refreshQueue' = refreshQueue
                 /\ \A k \in CallIds \ {c} : calls'[k] = calls[k]
      ]_vars

\* One call was handed a server error body, another a NETWORK_ERROR envelope.
C8_Witness ==
    \E c1, c2 \in CallIds :
        /\ calls[c1].pc = "done" /\ calls[c2].pc = "done"
        /\ calls[c1].result.kind = "errorBody"
        /\ calls[c1].result.err.status = 500
        /\ calls[c2].result.kind = "networkError"
        /\ calls[c2].result.err.status = 0

(***************************************************************************)
(* C9: every call put on the wire, original or retried, carries the token  *)
(* the TokenStore holds at that moment, whenever it holds a valid one.     *)
(***************************************************************************)
C9_DispatchCarriesStoreToken ==
    [][ \A c \in CallIds :
           (Dispatched(c) /\ StoreToken(store', env, now) # None)
           => calls'[c].auth = StoreToken(store', env, now)
      ]_vars

\* A retried call is on the wire with the refreshed token, which is not the
\* token the other instance last set or read.
C9_Witness ==
    \E c \in CallIds :
        /\ calls[c].pc = "inflight"
        /\ calls[c].sent = 2
        /\ StoreToken(store, env, now) # None
        /\ calls[c].auth = StoreToken(store, env, now)
        /\ \E j \in Instances \ {calls[c].inst} :
              token[j] # None /\ token[j] # calls[c].auth

(***************************************************************************)
(* C10: while the TokenStore (in a runtime that has one) holds no valid    *)
(* token, no client instance attaches an Authorization header to a call it *)
(* puts on the wire.                                                       *)
(***************************************************************************)
C10_NoHeaderOnceStoreEmpty ==
    [][ \A c \in CallIds :
           (Dispatched(c) /\ HasMemory(env) /\ StoreToken(store', env, now) = None)
           => calls'[c].auth = None
      ]_vars

(***************************************************************************)
(* Vocabulary of the TokenStorageManager properties.                       *)
(***************************************************************************)
\* This step is a call of operation op (the clock steps leave `now` alone
\* in no case, every call does).
Called(op) == last'.op = op /\ now' = now

\* The arguments of the saveToken call recorded in c.
SavedToken(c) == c.arg[1]
SavedTTL(c) == c.arg[2]
PositiveTTL(c) == SavedTTL(c) # None /\ SavedTTL(c)[1] > 0

\* The record getTokenData() would hand out (None: no record).
Record(st, e) == getTokenData(st, e).data

\* Nothing is left of the record: in-memory slot, durable record, legacy key.
RemovedEntirely(st) == st.mem = None /\ st.dur = None /\ st.legacy = None

(***************************************************************************)
(* C11: in a runtime with the in-memory slot, right after a saveToken(x,   *)
(* ttl) with ttl > 0 made through any instance, TokenStore.getToken() and  *)
(* every instance's getToken() return x, and a newly constructed instance  *)
(* starts with x.                                                          *)
(***************************************************************************)
C11_SavedTokenSeenByEveryInstance ==
    [][ (Called("saveToken") /\ HasMemory(env) /\ PositiveTTL(last'))
        => /\ StoreToken(store', env, now) = Some(SavedToken(last'))
           /\ \A j \in Instances :
                 getToken(token'[j], store', env, now).ret = Some(SavedToken(last'))
           /\ initializeTokenFromStorage(store', env, now).token = Some(SavedToken(last'))
      ]_vars

\* A token was just saved with a TTL while another instance's field holds a
\* different token and the durable store refuses writes.
C11_Witness ==
    /\ last.op = "saveToken"
    /\ PositiveTTL(last)
    /\ HasMemory(env)
    /\ env.ls = "throwsOnSet"
    /\ \E j \in Instances : token[j] # None /\ token[j] # Some(SavedToken(last))

(***************************************************************************)
(* C12, as stated: for every token and every positive ttlSeconds,          *)
(* saveToken(token, ttlSeconds) immediately followed by getToken() returns *)
(* token, and immediately followed by getTimeToExpiry() returns a value    *)
(* that is at most ttlSeconds and within 1 second of it.                   *)
(***************************************************************************)
C12_SaveThenReadRoundTrip ==
    [][ (last.op = "saveToken" /\ PositiveTTL(last))
        => /\ Called("getToken") => last'.ret = Some(SavedToken(last))
           /\ Called("getTimeToExpiry")
                 => /\ last'.ret[1] <= SavedTTL(last)[1]
                    /\ SavedTTL(last)[1] - last'.ret[1] <= 1
      ]_vars

(***************************************************************************)
(* C12, amended: the same round trip, in a runtime that has the in-memory  *)
(* slot (in a headless runtime saveToken stores nothing).                  *)
(***************************************************************************)
C12_SaveThenReadRoundTripWithMemory ==
    [][ (last.op = "saveToken" /\ PositiveTTL(last) /\ HasMemory(env))
        => /\ Called("getToken") => last'.ret = Some(SavedToken(last))
           /\ Called("getTimeToExpiry")
                 => /\ last'.ret[1] <= SavedTTL(last)[1]
                    /\ SavedTTL(last)[1] - last'.ret[1] <= 1
      ]_vars

\* getTimeToExpiry() answered 0 for a record saved one millisecond ago with
\* a TTL of one second.
C12_Witness ==
    /\ last.op = "getTimeToExpiry"
    /\ last.ret = <<0>>
    /\ store.mem # None
    /\ store.mem[1].issuedAt = now - 1
    /\ store.mem[1].expiresAt = Some(store.mem[1].issuedAt + MsPerSecond)

(***************************************************************************)
(* C13: expiry is checked lazily on read.  getToken() on a record with an  *)
(* expiry returns its token while now < expiresAt; at now >= expiresAt it  *)
(* returns null and removes the record entirely (in-memory slot, durable   *)
(* record, legacy key), so that getTokenData() afterwards returns null.    *)
(* saveToken(t, -1) makes getToken() null and hasValidToken() false        *)
(* immediately.                                                            *)
(***************************************************************************)
C13_LazyExpiryRemovesRecord ==
    [][ /\ (Called("getToken") /\ Record(store, env) # None
                               /\ Record(store, env)[1].expiresAt # None)
           => IF now < Record(store, env)[1].expiresAt[1]
              THEN last'.ret = Some(Record(store, env)[1].token)
              ELSE /\ last'.ret = None
                   /\ RemovedEntirely(store')
                   /\ Record(store', env) = None
        /\ (last.op = "saveToken" /\ SavedTTL(last) = Some(-1))
           => /\ Called("getToken") => last'.ret = None
              /\ Called("hasValidToken") => last'.ret = <<FALSE>>
      ]_vars

(***************************************************************************)
(* C14: a record saved by saveToken(token) with no TTL has expiresAt =     *)
(* null and never expires: the passing of time leaves it in place, and on  *)
(* such a record getToken() returns its token at any time and leaves it in *)
(* place, isTokenExpiringSoon() is false and getTimeToExpiry() is 0.       *)
(***************************************************************************)
NeverExpires(st, e) == Record(st, e) # None /\ Record(st, e)[1].expiresAt = None

C14_NoTTLNeverExpires ==
    [][ /\ (Called("saveToken") /\ SavedTTL(last') = None /\ HasMemory(env))
           => /\ NeverExpires(store', env)
              /\ Record(store', env)[1].token = SavedToken(last')
        /\ NeverExpires(store, env)
           => /\ now' # now => Record(store', env) = Record(store, env)
              /\ Called("getToken")
                 => /\ last'.ret = Some(Record(store, env)[1].token)
                    /\ Record(store', env) = Record(store, env)
              /\ Called("hasValidToken") => last'.ret = <<TRUE>>
              /\ Called("isTokenExpiringSoon") => last'.ret = <<FALSE>>
              /\ Called("getTimeToExpiry") => last'.ret = <<0>>
      ]_vars

\* A token saved without a TTL is read back after all the time the model lets pass.
C14_Witness ==
    /\ now >= StartTime + MaxTicks * TickMs
    /\ last.op = "getToken" /\ last.ret # None
    /\ NeverExpires(store, env)
    /\ store.mem # None /\ store.mem[1].issuedAt = StartTime

(***************************************************************************)
(* C15: after clearToken() returns, with the durable store working, absent *)
(* or throwing on remove, every read reports absence: getTokenData() and   *)
(* getToken() return null, hasValidToken() and isTokenExpiringSoon() false *)
(* and getTimeToExpiry() 0.                                                *)
(***************************************************************************)
ReadsAbsent(st, e, t) ==
    /\ getTokenData(st, e).data = None
    /\ getTokenStore(st, e, t).tok = None
    /\ ~hasValidToken(st, e, t).ret
    /\ ~isTokenExpiringSoon(st, e, t).ret
    /\ getTimeToExpiry(st, e, t).ret = 0

C15_ClearedReadsAbsent ==
    [][ (Called("clearToken") /\ env.ls \in {"ok", "absent", "throwsOnRemove"})
        => ReadsAbsent(store', env, now') ]_vars

(***************************************************************************)
(* C16: when the durable store's set throws on every call, saveToken(y,    *)
(* ttl) does not throw and leaves y in the in-memory slot, nothing in the  *)
(* durable store; from then on getToken() answers y from the slot for as   *)
(* long as the record has not expired, and only a save, a clear, an        *)
(* update, an expiry or a reload of the page changes the slot.             *)
(***************************************************************************)
SetAlwaysThrows(e) == SetThrows(e, STORAGE_KEY) /\ SetThrows(e, LEGACY_KEY)

Expired(r, t) == TruthyNum(r.expiresAt) /\ t >= r.expiresAt[1]

C16_MemoryAuthoritativeWhenSetThrows ==
    [][ (HasLocalStorage(env) /\ SetAlwaysThrows(env)) =>
        /\ Called("saveToken")
           => /\ ~last'.threw
              /\ store'.mem # None /\ store'.mem[1].token = SavedToken(last')
              /\ store'.dur = store.dur /\ store'.legacy = store.legacy
        /\ (store.mem # None /\ ~Expired(store.mem[1], now))
           => /\ Called("getToken")
                 => /\ last'.ret = Some(store.mem[1].token)
                    /\ ~last'.threw
              /\ (\A i \in Instances : last' = Call("client.getToken", <<i>>, last'.ret, last'.threw)
                                         /\ now' = now
                      => last'.ret = Some(store.mem[1].token))
              /\ store'.mem # store.mem
                 => \/ Called("saveToken") \/ Called("clearToken")
                    \/ Called("updateTokenData") \/ Called("reload")
      ]_vars

\* The durable store refuses every write, a token with a TTL was saved and,
\* some time later, read back from the in-memory slot.
C16_Witness ==
    /\ HasLocalStorage(env) /\ SetAlwaysThrows(env)
    /\ last.op = "getToken" /\ last.ret = Some("t2")
    /\ store.dur = None
    /\ store.mem # None /\ store.mem[1].expiresAt # None /\ now > store.mem[1].issuedAt

(***************************************************************************)
(* C17: no TokenStore operation ever throws, whatever the durable store    *)
(* does.  Without window (headless) reads report no token and writes       *)
(* change nothing; a durable payload that fails to parse or to validate is *)
(* treated as no token.                                                    *)
(***************************************************************************)
StoreOps ==
    {"saveToken", "getTokenData", "getToken", "hasValidToken",
     "isTokenExpiringSoon", "getTimeToExpiry", "clearToken", "updateTokenData"}

Absent(op) ==
    CASE op \in {"getTokenData", "getToken"} -> None
      [] op \in {"hasValidToken", "isTokenExpiringSoon"} -> <<FALSE>>
      [] op = "getTimeToExpiry" -> <<0>>
      [] OTHER -> <<>>

Malformed(payload) == ParseThrows(payload) \/ ~isValidTokenData(Parse(payload))

C17_NoOperationThrows ==
    [][ (last'.op \in StoreOps /\ now' = now) =>
        /\ ~last'.threw
        /\ ~HasMemory(env) => store' = store /\ last'.ret = Absent(last'.op)
        /\ (store.mem = None /\ store.dur # None /\ Malformed(store.dur[1]))
           => (last'.op \notin {"saveToken", "clearToken", "updateTokenData"}
                  => last'.ret = Absent(last'.op))
      ]_vars

\* The durable store raised an exception inside an operation (a payload that
\* is not JSON, or a store that throws on the call) and the operation
\* returned the absent value.
C17_Witness ==
    /\ last.op = "getToken" /\ last.ret = None /\ ~last.threw
    /\ store.mem = None
    /\ \/ store.dur # None /\ ParseThrows(store.dur[1])
       \/ GetThrows(env, STORAGE_KEY)

(***************************************************************************)
(* C18: isTokenExpiringSoon() returns true if and only if a record exists  *)
(* whose expiresAt is non-null and expiresAt - now < 300000 ms.            *)
(***************************************************************************)
C18_ExpiringSoonIff ==
    [][ Called("isTokenExpiringSoon")
        => (last'.ret = <<TRUE>>
            <=> /\ Record(store, env) # None
                /\ Record(store, env)[1].expiresAt # None
                /\ Record(store, env)[1].expiresAt[1] - now < 300000)
      ]_vars

(***************************************************************************)
(* C19: updateTokenData(partial) with no expiresAt in partial, applied to  *)
(* an existing record, preserves token, sets the supplied userId and keeps *)
(* expiresAt approximately unchanged: a non-null expiresAt stays non-null  *)
(* and within 1 second of its previous value, a null expiresAt stays null. *)
(* When no record exists it changes nothing and does not throw.            *)
(***************************************************************************)
Updates(c) == c.arg[1]

Within(a, b, d) == a - b <= d /\ b - a <= d

ApproximatelyKept(before, after) ==
    IF before = None
    THEN after = None
    ELSE after # None /\ Within(after[1], before[1], MsPerSecond)

C19_UpdateKeepsTokenAndExpiry ==
    [][ (Called("updateTokenData") /\ Updates(last').expiresAt = <<>>)
        => /\ ~last'.threw
           /\ IF Record(store, env) = None
              THEN store' = store
              ELSE /\ Record(store', env) # None
                   /\ Record(store', env)[1].token = Record(store, env)[1].token
                   /\ Updates(last').userId # <<>>
                      => Record(store', env)[1].userId = Updates(last').userId[1]
                   /\ ApproximatelyKept(Record(store, env)[1].expiresAt,
                                        Record(store', env)[1].expiresAt)
      ]_vars

(***************************************************************************)
(* C20: the legacy durable key 'altus4_token' stays in sync with the       *)
(* primary durable record 'altus4_auth_data' over every saveToken and      *)
(* clearToken, whatever the durable store does: afterwards either both are *)
(* present with the legacy value equal to the primary record's token, or   *)
(* both are absent.                                                        *)
(***************************************************************************)
InSync(st) ==
    IF st.dur = None
    THEN st.legacy = None
    ELSE ~ParseThrows(st.dur[1]) /\ st.legacy = Some(Parse(st.dur[1]).token)

C20_LegacyKeyInSync ==
    [][ (InSync(store) /\ (Called("saveToken") \/ Called("clearToken")))
        => InSync(store') ]_vars

(***************************************************************************)
(* The stored record on its own: saveToken with every kind of argument (an *)
(* empty token, a TTL of zero, a user id), updates, reads, clears, the     *)
(* clock, page reloads and another writer, with the durable store working, *)
(* refusing writes, or no window at all.                                   *)
(***************************************************************************)
RecordEnvs ==
    { [window |-> TRUE,  ls |-> "ok"],
      [window |-> TRUE,  ls |-> "throwsOnSet"],
      [window |-> FALSE, ls |-> "absent"] }

RecordTokens == UserTokens \cup {""}
RecordTTLs == StoreTTLs \cup {Some(0)}
RecordUserIds == {None} \cup {Some(u) : u \in UserIds}

RecordInit ==
    /\ env \in RecordEnvs
    /\ now = StartTime
    /\ store = EmptyStore
    /\ token = [i \in Instances |-> None]
    /\ refreshInProgress = [i \in Instances |-> FALSE]
    /\ refreshQueue = [i \in Instances |-> <<>>]
    /\ calls = [c \in CallIds |-> NewCall]
    /\ last = NoOp
    /\ wire = <<>>

RecordNext ==
    \/ \E tok \in RecordTokens, ttl \in RecordTTLs, userId \in RecordUserIds :
           CallSaveToken(tok, ttl, userId)
    \/ CallGetTokenData
    \/ CallGetToken
    \/ CallIsTokenExpiringSoon
    \/ CallGetTimeToExpiry
    \/ CallClearToken
    \/ \E updates \in Partials : CallUpdateTokenData(updates)
    \/ Reload
    \/ \E payload \in ForeignPayloads : ForeignWrite(payload)
    \/ Tick
    \/ Millisecond

RecordSpec == RecordInit /\ [][RecordNext]_vars

(***************************************************************************)
(* C21: no TokenStore operation, saveToken with an empty string included,  *)
(* leaves a stored record (in-memory slot or durable record) with an empty *)
(* token, and getTokenData() never returns one.                            *)
(***************************************************************************)
NoEmptyToken(st) ==
    /\ st.mem # None => st.mem[1].token # ""
    /\ (st.dur # None /\ ~ParseThrows(st.dur[1])) => Parse(st.dur[1]).token # ""

C21_NoRecordWithEmptyToken ==
    [][ (last'.op \in StoreOps /\ now' = now) =>
        /\ NoEmptyToken(store) => NoEmptyToken(store')
        /\ Called("getTokenData") /\ last'.ret # None => last'.ret[1].token # ""
      ]_vars

(***************************************************************************)
(* C22, as stated: whenever a record is written by saveToken or            *)
(* updateTokenData, its expiresAt is either null or strictly greater than  *)
(* the time of the write.                                                  *)
(***************************************************************************)
\* The step is a saveToken or an updateTokenData that writes a record.
Writes ==
    /\ HasMemory(env)
    /\ \/ Called("saveToken")
       \/ Called("updateTokenData") /\ Record(store, env) # None

\* The records the store holds: in-memory slot and parsed durable record.
Stored(st) ==
    (IF st.mem = None THEN {} ELSE {st.mem[1]})
    \cup (IF st.dur = None \/ ParseThrows(st.dur[1]) THEN {} ELSE {Parse(st.dur[1])})

\* The records the step has written.
Written == {store'.mem[1]} \cup (IF store'.dur # store.dur THEN Stored(store') ELSE {})

NullOrFuture(r, t) == r.expiresAt = None \/ r.expiresAt[1] > t

C22_WrittenExpiryInFuture ==
    [][ Writes => \A r \in Written : NullOrFuture(r, now) ]_vars

(***************************************************************************)
(* C22, amended: a record written by saveToken with a TTL that is omitted  *)
(* or not negative, or by updateTokenData when the merged record's         *)
(* expiresAt is null or not in the past, has an expiresAt that is null or  *)
(* strictly greater than the time of the write; saveToken with a negative  *)
(* TTL writes an expiresAt in the past.                                    *)
(***************************************************************************)
NotNegative(ttl) == ttl = None \/ ttl[1] >= 0

NullOrNotPast(r, t) == r.expiresAt = None \/ r.expiresAt[1] >= t

C22_WrittenExpiryInFutureUnlessPastRequested ==
    [][ /\ (Writes /\ Called("saveToken"))
           => \A r \in Written :
                  IF NotNegative(SavedTTL(last'))
                  THEN NullOrFuture(r, now)
                  ELSE ~NullOrNotPast(r, now)
        /\ (Writes /\ Called("updateTokenData")
                   /\ NullOrNotPast(Merge(Record(store, env)[1], Updates(last')), now))
           => \A r \in Written : NullOrFuture(r, now)
      ]_vars

\* A record with an expiry one second ahead has been written some time
\* after the start, to memory and to the durable store.
C22_Witness ==
    /\ last.op = "saveToken" /\ SavedTTL(last) = Some(1)
    /\ now > StartTime
    /\ store.mem # None /\ store.mem[1].expiresAt = Some(now + MsPerSecond)
    /\ store.dur = Some(Stringify(store.mem[1]))

(***************************************************************************)
(* C23: a RefreshWaiter exists only while a refresh call is in flight: a   *)
(* non-empty waiter list implies a refresh call in flight for that         *)
(* instance; when that refresh settles every waiter is invoked exactly     *)
(* once and the list is empty afterwards.                                  *)
(***************************************************************************)
Waiters(q) == {q[k] : k \in 1..Len(q)}

C23_WaitersOnlyWhileRefreshInFlight ==
    [][ \A i \in Instances :
          /\ refreshQueue'[i] # <<>> => RefreshInFlightIn(calls', i) # {}
          /\ (RefreshInFlight(i) # {} /\ RefreshInFlightIn(calls', i) = {})
             => /\ refreshQueue'[i] = <<>>
                /\ \A w \in Waiters(refreshQueue[i]) :
                       /\ calls[w].pc = "waiting" /\ calls'[w].pc # "waiting"
                       /\ Cardinality({k \in 1..Len(refreshQueue[i]) : refreshQueue[i][k] = w}) = 1
      ]_vars

(***************************************************************************)
(* One instance with one call more than the client protocol above          *)
(* explores, so that two waiters can queue behind one refresh.             *)
(***************************************************************************)
QueueCallIds == 1..(MaxCalls + 1)
QueueInstances == {"A"}

QueueInit ==
    /\ env \in ClientEnvs
    /\ now = StartTime
    /\ store = EmptyStore
    /\ token = [i \in Instances |-> None]
    /\ refreshInProgress = [i \in Instances |-> FALSE]
    /\ refreshQueue = [i \in Instances |-> <<>>]
    /\ calls = [c \in QueueCallIds |-> NewCall]
    /\ last = NoOp
    /\ wire = <<>>

QueueNext ==
    \/ \E c \in QueueCallIds, i \in QueueInstances : StartRequest(c, i, ApiUrl)
    \/ \E c \in QueueCallIds, resp \in Responses : Respond(c, resp)
    \/ \E c \in QueueCallIds, resp \in RefreshResponses : RefreshRespond(c, resp)

QueueSpec == QueueInit /\ [][QueueNext]_vars

(***************************************************************************)
(* C24: when a refresh settles, the queued waiters are released in the     *)
(* order they were enqueued; on success each waiter's retry goes on the    *)
(* wire in that order and the triggering call's retry after all of them;   *)
(* on failure every waiter is rejected in that step.  The retries may      *)
(* complete in any order.                                                  *)
(***************************************************************************)
Settles(c) == calls[c].pc = "trigger" /\ calls'[c].pc # "trigger"

C24_WaitersReleasedInEnqueueOrder ==
    [][ \A c \in QueueCallIds :
          Settles(c) =>
            IF calls'[c].pc = "inflight"
            THEN /\ wire' = Append(refreshQueue[calls[c].inst], c)
                 /\ \A w \in Waiters(refreshQueue[calls[c].inst]) :
                        calls'[w].pc = "inflight" /\ calls'[w].sent = 2
            ELSE /\ wire' = wire
                 /\ \A w \in Waiters(refreshQueue[calls[c].inst]) :
                        calls'[w].pc = "done"
      ]_vars

\* Two waiters were released behind one refresh, in the order they had
\* queued (the later call first), then the trigger; the trigger's retry has
\* completed while the first waiter's retry is still on the wire.
C24_Witness ==
    /\ Len(wire) = 3 /\ wire[1] > wire[2]
    /\ calls[wire[3]].pc = "done" /\ calls[wire[3]].retry
    /\ calls[wire[1]].pc = "inflight" /\ calls[wire[1]].sent = 2

(***************************************************************************)
(* C25: getTokenData() returns the in-memory record whenever it is         *)
(* structurally valid, whatever the durable store holds; only when the     *)
(* in-memory slot is absent or invalid does it read the durable store, and *)
(* a valid durable read is copied into the in-memory slot, so that the     *)
(* next getTokenData() is served from memory.                              *)
(***************************************************************************)
ValidInMemory(st, e) == HasMemory(e) /\ st.mem # None /\ isValidTokenData(st.mem[1])

ValidInDurable(st, e) ==
    /\ HasLocalStorage(e) /\ ~GetThrows(e, STORAGE_KEY)
    /\ st.dur # None /\ ~Malformed(st.dur[1])

C25_MemoryFirstThenDurableWithRefill ==
    [][ Called("getTokenData") =>
          IF ValidInMemory(store, env)
          THEN last'.ret = store.mem /\ store' = store
          ELSE IF ValidInDurable(store, env)
          THEN /\ last'.ret = Some(Parse(store.dur[1]))
               /\ store' = [store EXCEPT !.mem = last'.ret]
               /\ ValidInMemory(store', env)
          ELSE last'.ret = None /\ store' = store
      ]_vars

\* The in-memory record was returned although the durable store holds a
\* different valid record.
C25_Witness ==
    /\ last.op = "getTokenData" /\ last.ret # None /\ last.ret = store.mem
    /\ ValidInDurable(store, env)
    /\ Parse(store.dur[1]) # store.mem[1]

(***************************************************************************)
(* C26: refresh coordination is per instance and TokenStore writes are     *)
(* last-write-wins.  Whether a 401 starts a refresh or queues depends on   *)
(* the flag of the call's own instance only, and touches no other          *)
(* instance's flag or queue, so two refresh calls, one per instance, can   *)
(* be in flight at once.  Whenever a refresh settles, the store holds the  *)
(* effect of that write whatever the other instance wrote before: the new  *)
(* token on success, nothing on failure.                                   *)
(***************************************************************************)
\* The instance call c runs on in this step.
Owner(c) == IF calls[c].pc = "new" THEN calls'[c].inst ELSE calls[c].inst

Fresh(c, t) ==
    [token     |-> c.arg[1],
     expiresAt |-> IF c.arg[2] = None \/ c.arg[2][1] = 0
                   THEN None
                   ELSE Some(t + c.arg[2][1] * 1000),
     issuedAt  |-> t,
     userId    |-> c.arg[3]]

C27_SaveReplacesRecordWholesale ==
    [][ (Called("saveToken") /\ HasMemory(env)) =>
          /\ store'.mem = Some(Fresh(last', now))
          /\ store'.dur # store.dur => store'.dur = Some(Stringify(Fresh(last', now)))
          /\ (HasLocalStorage(env) /\ ~SetThrows(env, STORAGE_KEY))
             => Stored(store') = {Fresh(last', now)}
          /\ SavedToken(last') # "" => Record(store', env) = Some(Fresh(last', now))
      ]_vars

\* A save without TTL and user id has replaced a record that had an expiry:
\* the durable store, which refuses writes, still shows the old record.
C27_Witness ==
    /\ last.op = "saveToken" /\ SavedTTL(last) = None /\ last.arg[3] = None
    /\ store.mem # None /\ store.mem[1].expiresAt = None
    /\ store.dur # None /\ ~Malformed(store.dur[1])
    /\ Parse(store.dur[1]).expiresAt # None
    /\ Record(store, env) = store.mem

(***************************************************************************)
(* C28: saveToken(token, 0) stores a record with expiresAt = null, exactly *)
(* as if the TTL had been omitted; only a non-zero TTL produces an expiry. *)
(* The same holds for the save inside updateTokenData when less than one   *)
(* second remains on the record.                                           *)
(***************************************************************************)
\* Milliseconds left on record r at time t (r has an expiry).
Remaining(r, t) == r.expiresAt[1] - t

C28_ZeroTTLNeverExpires ==
    [][ HasMemory(env) =>
        /\ Called("saveToken")
           => /\ SavedTTL(last') = Some(0)
                 => /\ store'.mem[1].expiresAt = None
                    /\ store' = saveToken(store, env, now, SavedToken(last'), None, last'.arg[3])
              /\ (SavedTTL(last') # None /\ SavedTTL(last') # Some(0))
                 => store'.mem[1].expiresAt # None
        /\ (Called("updateTokenData") /\ Record(store, env) # None)
           => \A merged \in {Merge(Record(store, env)[1], Updates(last'))} :
                 (merged.expiresAt # None /\ Remaining(merged, now) >= 0
                                          /\ Remaining(merged, now) < 1000)
                 => /\ store'.mem[1].expiresAt = None
                    /\ store'.mem[1].token = merged.token
      ]_vars

\* Some time after the start a token was saved with a TTL of 0 and is
\* handed out as a record that never expires.
C28_Witness ==
    /\ last.op = "saveToken" /\ SavedTTL(last) = Some(0)
    /\ now > StartTime
    /\ NeverExpires(store, env)
    /\ Record(store, env)[1].issuedAt = now

(***************************************************************************)
(* C29: after a successful automatic refresh the new token is stored       *)
(* without a TTL: the stored record has expiresAt = null and no userId,    *)
(* whatever the previous record contained, so isTokenExpiringSoon() is     *)
(* false and getTimeToExpiry() is 0, now and at any later time.            *)
(***************************************************************************)
LatestTime == StartTime + MaxTicks * TickMs

C29_RefreshedTokenStoredWithoutTTL ==
    [][ \A c \in CallIds :
          (Settles(c) /\ calls'[c].pc = "inflight" /\ HasMemory(env))
          => /\ Stored(store') = {[token     |-> token'[calls[c].inst][1],
                                   expiresAt |-> None,
                                   issuedAt  |-> now,
                                   userId    |-> None]}
             /\ \A t \in {now, LatestTime} :
                    /\ ~isTokenExpiringSoon(store', env, t).ret
                    /\ getTimeToExpiry(store', env, t).ret = 0
                    /\ StoreToken(store', env, t) = token'[calls[c].inst]
      ]_vars

\* A refresh has succeeded some time after the start: the trigger's retry is
\* on the wire with the refreshed token, which is stored without expiry.
C29_Witness ==
    /\ now > StartTime
    /\ \E c \in CallIds :
           /\ calls[c].pc = "inflight" /\ calls[c].sent = 2
           /\ calls[c].auth \in {Some(t) : t \in RefreshTokens}
           /\ NeverExpires(store, env)
           /\ Record(store, env)[1].token = calls[c].auth[1]
           /\ Record(store, env)[1].issuedAt = now

(***************************************************************************)
(* C30: every 401 that is finally surfaced to a caller has caused          *)
(* clearToken() on that instance first: when request() returns a 401       *)
(* (after a failed refresh episode, from a call to the refresh endpoint,   *)
(* or from a retried call that failed again), the instance's token field   *)
(* is null and nothing is left in the shared TokenStore, even when the     *)
(* token removed is the one a refresh had just saved.                      *)
(***************************************************************************)
Surfaces401(c) == Returns(c) /\ calls'[c].result.err.status = Unauthorized

====
